---- MODULE Spec2Model ----
(***************************************************************************)
(* A model of the Hasher of stevej/gohash (the preimage search engine):    *)
(* its configuration setters, verify(), the sequential (odometer) search,  *)
(* the random search and the status reporter goroutine.                    *)
(*                                                                         *)
(* Bytes are integers 0..255, byte slices and strings are sequences of     *)
(* bytes, algorithm names are sequences of one-character strings (so that  *)
(* strings.Replace can be modelled), hexadecimal text is a sequence of     *)
(* one-character strings.  nil slices and empty slices are both <<>>.      *)
(***************************************************************************)
EXTENDS Integers, Sequences, FiniteSets, TLC

VARIABLES h, pc, op, loc, ret, err, reporters, raw, tested, digests, samples

vars == <<h, pc, op, loc, ret, err, reporters, raw, tested, digests, samples>>

(***************************************************************************)
(* Bounds of the model.                                                    *)
(***************************************************************************)
\* longest key length handed to Length / MinLength / MaxLength
MaxLen == 2
\* longest raw string whose normalization is checked
MaxStrLen == 4
\* h.tick is followed up to this value (two, so that a reporter can write
\* over a value another reporter has written since it read h.tick)
MaxTick == 2
\* the random search is followed for this many failed attempts
MaxRndTry == 1
\* search calls that pass validation on one Hasher, one after the other
MaxRuns == 2

(***************************************************************************)
(* Generic helpers on sequences.                                           *)
(***************************************************************************)
Range(s) == {s[i] : i \in DOMAIN s}

RECURSIVE SeqsUpTo(_, _)
\* all sequences over S of length at most n
SeqsUpTo(S, n) ==
    IF n = 0 THEN {<<>>}
    ELSE LET shorter == SeqsUpTo(S, n - 1)
         IN  shorter \cup {Append(s, b) : s \in {t \in shorter : Len(t) = n - 1}, b \in S}

RECURSIVE Pow(_, _)
Pow(b, e) == IF e <= 0 THEN 1 ELSE b * Pow(b, e - 1)

RECURSIVE SumSeq(_)
SumSeq(s) == IF s = <<>> THEN 0 ELSE Head(s) + SumSeq(Tail(s))

(***************************************************************************)
(* The bytes of the model: '0' (the fallback of nextValueFor), 'a', 'b'.   *)
(***************************************************************************)
Bytes == {48, 97, 98}

\* the raw strings handed to AllowedKeys before a search: "", "b", "ba",
\* "0b", "ba0", "bab"
KeyInputs == {<<>>, <<98>>, <<98, 97>>, <<48, 98>>, <<98, 97, 48>>, <<98, 97, 98>>}

\* the raw strings whose normalization is checked
NormInputs == SeqsUpTo(Bytes, MaxStrLen)

\* the lengths handed to MinLength: negative, unset, and every usable one
LengthInputs == (0 - 1) .. MaxLen

\* the lengths handed to MaxLength: below and not below the usable MinLengths
MaxLengthInputs == {0, MaxLen}

\* the suffixes handed to Suffix: "" and "a"
SuffixInputs == {<<>>, <<97>>}

(***************************************************************************)
(* The registry of part_002: algorithm name -> digest size in bits.        *)
(***************************************************************************)
md5       == <<"m", "d", "5">>
sha1      == <<"s", "h", "a", "1">>
sha224    == <<"s", "h", "a", "2", "2", "4">>
sha256    == <<"s", "h", "a", "2", "5", "6">>
sha384    == <<"s", "h", "a", "3", "8", "4">>
sha512    == <<"s", "h", "a", "5", "1", "2">>
sha512224 == <<"s", "h", "a", "5", "1", "2", "-", "2", "2", "4">>
sha512256 == <<"s", "h", "a", "5", "1", "2", "-", "2", "5", "6">>
sha3224   == <<"s", "h", "a", "3", "-", "2", "2", "4">>
sha3256   == <<"s", "h", "a", "3", "-", "2", "5", "6">>
sha3384   == <<"s", "h", "a", "3", "-", "3", "8", "4">>
sha3512   == <<"s", "h", "a", "3", "-", "5", "1", "2">>

algos ==
    (md5 :> 128) @@ (sha1 :> 160) @@ (sha224 :> 224) @@ (sha256 :> 256) @@
    (sha384 :> 384) @@ (sha512 :> 512) @@ (sha512224 :> 224) @@
    (sha512256 :> 256) @@ (sha3224 :> 224) @@ (sha3256 :> 256) @@
    (sha3384 :> 384) @@ (sha3512 :> 512)

\* the names handed to Algo: "", "md5", "sha3_224" (an underscore spelling),
\* "crc32" (a name of the calculator's registry, not of the searcher's)
AlgoInputs ==
    { <<>>, md5, <<"s", "h", "a", "3", "_", "2", "2", "4">>,
      <<"c", "r", "c", "3", "2">> }

(***************************************************************************)
(* The digest functions (crypto/md5, crypto/sha1, ... : libraries, not     *)
(* code of the repository) are abstracted by one deterministic function    *)
(* of the algorithm and the input with the algorithm's output size.  It    *)
(* depends on the length and the sum of the input only, so that distinct   *)
(* candidates can collide ("a0" and "0a") and a search can meet more than  *)
(* one match.                                                              *)
(***************************************************************************)
Sum(algo, data) ==
    [i \in 1 .. (algos[algo] \div 8) |->
        (SumSeq(data) + 31 * Len(data) + Len(algo) + i) % 256]

(***************************************************************************)
(* Hexadecimal text.                                                       *)
(***************************************************************************)
HexDigits ==
    <<"0", "1", "2", "3", "4", "5", "6", "7", "8", "9", "a", "b", "c", "d", "e", "f">>

HexVal(c) == (CHOOSE i \in DOMAIN HexDigits : HexDigits[i] = c) - 1

\* hex.EncodeToString: two lower-case digits per byte
encodeHex(src) ==
    [i \in 1 .. 2 * Len(src) |->
        IF i % 2 = 1 THEN HexDigits[(src[(i + 1) \div 2] \div 16) + 1]
        ELSE HexDigits[(src[i \div 2] % 16) + 1]]

\* hexStringToBytes: one byte per pair of digits, high digit first
hexStringToBytes(s) ==
    [i \in 1 .. (Len(s) \div 2) |-> 16 * HexVal(s[2 * i - 1]) + HexVal(s[2 * i])]

\* the candidates whose digests are handed to ExpectedHash: "a0" (collides
\* with "0a"), "b", and "zz", which no candidate of the model's key spaces
\* equals or collides with
TargetTexts == {<<97, 48>>, <<98>>, <<122, 122>>}

\* the hexadecimal strings handed to ExpectedHash: digests of the targets
\* under md5, one under sha3-224, and "68656a" (three bytes: a wrong size)
ExpectedInputs ==
    {encodeHex(Sum(md5, t)) : t \in TargetTexts}
        \cup {encodeHex(Sum(sha3224, <<98>>))}
        \cup {<<"6", "8", "6", "5", "6", "a">>}

(***************************************************************************)
(* part_000: byte slice helpers.                                           *)
(***************************************************************************)
\* byte16ArrayEquals, byte20ArrayEquals, ...: a digest array against a slice,
\* equal when the lengths and the bytes at every index are
byteNArrayEquals(a, b) ==
    IF Len(a) # Len(b) THEN FALSE
    ELSE \A i \in DOMAIN a : a[i] = b[i]

isByteInSlice(a, list) == \E i \in DOMAIN list : list[i] = a

RECURSIVE insertSorted(_, _)
insertSorted(b, s) ==
    IF s = <<>> THEN <<b>>
    ELSE IF b < Head(s) THEN <<b>> \o s
    ELSE <<Head(s)>> \o insertSorted(b, Tail(s))

RECURSIVE sortBytes(_)
\* sort.Sort(byteSlice(res)): ascending by byte value
sortBytes(s) == IF s = <<>> THEN <<>> ELSE insertSorted(Head(s), sortBytes(Tail(s)))

RECURSIVE distinctFrom(_, _, _)
\* the loop of strToDistinctByteSlice from index i on, res being the bytes kept so far
distinctFrom(s, i, res) ==
    IF i > Len(s) THEN res
    ELSE IF isByteInSlice(s[i], res) THEN distinctFrom(s, i + 1, res)
    ELSE distinctFrom(s, i + 1, Append(res, s[i]))

\* (mutation of strToDistinctByteSlice: the sort is left out)
strToDistinctUnsorted(s) == distinctFrom(s, 1, <<>>)

strToDistinctByteSlice(s) == sortBytes(distinctFrom(s, 1, <<>>))

(***************************************************************************)
(* part_002: the Hasher.                                                   *)
(***************************************************************************)
\* NewHasher: &Hasher{}
NewHasher ==
    [algo |-> <<>>, suffix |-> <<>>, expected |-> <<>>, minLength |-> 0,
     maxLength |-> 0, allowedKeys |-> <<>>, reverse |-> FALSE,
     buffer |-> <<>>, try |-> 0, tick |-> 0]

\* strings.Replace(algo, "_", "-", -1)
replaceUnderscore(algo) ==
    [i \in 1 .. Len(algo) |-> IF algo[i] = "_" THEN "-" ELSE algo[i]]

\* the errors: nil is <<>>, an error is its format string and its arguments
Nil == <<>>
ErrAllowedKeysUnset == <<"allowedKeys unset">>
ErrMinLengthUnset == <<"minLength unset">>
ErrAlgoUnset == <<"algo unset">>
ErrWrongSize(required, got) ==
    <<"expectedHash is wrong size, should be %d bit, is %d", required, got>>
ErrUnknownAlgo(algo) == <<"unknown algo %s", algo>>
ErrReverseRandom == <<"reverse and random dont mix">>

\* (mutation of verify: the size of the expected digest is not compared)
verifyNoSizeCheck(hh) ==
    IF Len(hh.allowedKeys) = 0 THEN ErrAllowedKeysUnset
    ELSE IF hh.minLength = 0 THEN ErrMinLengthUnset
    ELSE IF Len(hh.algo) = 0 THEN ErrAlgoUnset
    ELSE IF hh.algo \in DOMAIN algos THEN Nil
    ELSE ErrUnknownAlgo(hh.algo)

verify(hh) ==
    IF Len(hh.allowedKeys) = 0 THEN ErrAllowedKeysUnset
    ELSE IF hh.minLength = 0 THEN ErrMinLengthUnset
    ELSE IF Len(hh.algo) = 0 THEN ErrAlgoUnset
    ELSE LET keyBitSize == Len(hh.expected) * 8
             expectedBitSize == Len(hh.expected) * 8
         IN  IF hh.algo \in DOMAIN algos
             THEN IF keyBitSize # algos[hh.algo]
                  THEN ErrWrongSize(algos[hh.algo], expectedBitSize)
                  ELSE Nil
             ELSE ErrUnknownAlgo(hh.algo)

\* (mutation of equals: the digest is taken of the prefix, without the suffix)
equalsOfPrefix(hh) ==
    /\ hh.algo \in DOMAIN algos
    /\ byteNArrayEquals(Sum(hh.algo, SubSeq(hh.buffer, 1, hh.minLength)), hh.expected)

\* equals(): the branch of the configured algorithm compares the digest of
\* h.buffer with h.expected; every other branch is skipped
equals(hh) ==
    /\ hh.algo \in DOMAIN algos
    /\ byteNArrayEquals(Sum(hh.algo, hh.buffer), hh.expected)

\* (mutation of nextValueFor: the key after the next one is returned)
nextValueForSkips(hh, b) ==
    LET at == {i \in DOMAIN hh.allowedKeys : hh.allowedKeys[i] = b}
        first == CHOOSE i \in at : \A j \in at : i <= j
    IN  IF at # {} /\ first + 1 < Len(hh.allowedKeys)
        THEN hh.allowedKeys[first + 2]
        ELSE 48

nextValueFor(hh, b) ==
    LET at == {i \in DOMAIN hh.allowedKeys : hh.allowedKeys[i] = b}
        first == CHOOSE i \in at : \A j \in at : i <= j
    IN  IF at # {} /\ first < Len(hh.allowedKeys)
        THEN hh.allowedKeys[first + 1]
        ELSE 48

prevValueFor(hh, b) ==
    LET at == {i \in DOMAIN hh.allowedKeys : hh.allowedKeys[i] = b}
        first == CHOOSE i \in at : \A j \in at : i <= j
    IN  IF at = {} THEN hh.allowedKeys[Len(hh.allowedKeys)]
        ELSE IF first = 1 THEN hh.allowedKeys[1]
        ELSE hh.allowedKeys[first - 1]

\* make([]byte, n): n zero bytes
makeBytes(n) == [i \in 1 .. n |-> 0]

\* the locals of FindSequential / FindRandom before the call
NoLocals ==
    [x |-> 0, roller |-> 0, firstAllowedKey |-> 0, lastAllowedKey |-> 0,
     allowedKeysLen |-> 0]

\* the byte the initial mutation of FindSequential writes
seqInitialKey(hh, l) ==
    IF hh.reverse THEN l.lastAllowedKey ELSE l.firstAllowedKey

\* (mutation of seqRoll: a wrapped position ends the loop, the carry is lost)
seqRollNoCarry(hh, l) ==
    LET cur == hh.buffer[l.roller + 1]
    IN  IF hh.reverse
        THEN IF cur = l.firstAllowedKey
             THEN [byte |-> l.lastAllowedKey, continue |-> FALSE]
             ELSE [byte |-> prevValueFor(hh, cur), continue |-> FALSE]
        ELSE IF cur = l.lastAllowedKey
             THEN [byte |-> l.firstAllowedKey, continue |-> FALSE]
             ELSE [byte |-> nextValueFor(hh, cur), continue |-> FALSE]

\* (mutation of seqRoll: a wrapped position of the descending search is
\* left at the first key)
seqRollWrapStays(hh, l) ==
    LET cur == hh.buffer[l.roller + 1]
    IN  IF hh.reverse
        THEN IF cur = l.firstAllowedKey
             THEN [byte |-> l.firstAllowedKey, continue |-> TRUE]
             ELSE [byte |-> prevValueFor(hh, cur), continue |-> FALSE]
        ELSE IF cur = l.lastAllowedKey
             THEN [byte |-> l.firstAllowedKey, continue |-> TRUE]
             ELSE [byte |-> nextValueFor(hh, cur), continue |-> FALSE]

\* one iteration of the "update mutation" loop of FindSequential at position
\* l.roller (0-based): the byte written, and whether the loop continues
seqRoll(hh, l) ==
    LET cur == hh.buffer[l.roller + 1]
    IN  IF hh.reverse
        THEN IF cur = l.firstAllowedKey
             THEN [byte |-> l.lastAllowedKey, continue |-> TRUE]
             ELSE [byte |-> prevValueFor(hh, cur), continue |-> FALSE]
        ELSE IF cur = l.lastAllowedKey
             THEN [byte |-> l.firstAllowedKey, continue |-> TRUE]
             ELSE [byte |-> nextValueFor(hh, cur), continue |-> FALSE]

(***************************************************************************)
(* Bounds derived from the bounds above.                                   *)
(***************************************************************************)
\* the sequential search is followed for two tests more than the largest
\* key space has candidates
SeqTests == Pow(Cardinality(Bytes), MaxLen) + 2

(***************************************************************************)
(* The state.  h is the Hasher; pc is the position of the caller's         *)
(* goroutine ("idle": between calls, no search validated yet); op is the   *)
(* search entry point called last; loc holds its locals; ret and err are   *)
(* what that call returned; reporters holds one entry per statusReport     *)
(* goroutine.  tested (the buffers equals() was evaluated on by the loop   *)
(* of the current call of FindSequential, in order), digests (the number   *)
(* of digests computed),                                                   *)
(* samples (the number of rand.Intn draws) and raw (the string AllowedKeys  *)
(* was last called with) are history variables.                            *)
(* h.try and h.tick are uint64 in the code; the model follows them far     *)
(* below 2^64, so their wrap-around is out of its reach.                   *)
(***************************************************************************)
Init ==
    /\ h = NewHasher
    /\ pc = "idle"
    /\ op = "none"
    /\ loc = NoLocals
    /\ ret = <<>>
    /\ err = Nil
    /\ reporters = <<>>
    /\ raw = <<>>
    /\ tested = <<>>
    /\ digests = 0
    /\ samples = 0

\* a setter runs between calls and leaves the last call's result behind
Setter(hh) ==
    /\ pc = "idle"
    /\ h' = hh
    /\ op' = "none"
    /\ ret' = <<>>
    /\ err' = Nil
    /\ UNCHANGED <<pc, loc, reporters, tested, digests, samples>>

Algo ==
    /\ UNCHANGED raw
    /\ \E a \in AlgoInputs : Setter([h EXCEPT !.algo = replaceUnderscore(a)])

ExpectedHash ==
    /\ UNCHANGED raw
    /\ \E e \in ExpectedInputs : Setter([h EXCEPT !.expected = hexStringToBytes(e)])

Length ==
    /\ UNCHANGED raw
    /\ \E n \in {MaxLen} : Setter([h EXCEPT !.minLength = n, !.maxLength = n])

Reverse ==
    /\ UNCHANGED raw
    /\ \E b \in BOOLEAN : Setter([h EXCEPT !.reverse = b])

Suffix ==
    /\ UNCHANGED raw
    /\ \E s \in SuffixInputs : Setter([h EXCEPT !.suffix = s])

MinLength ==
    /\ UNCHANGED raw
    /\ \E n \in LengthInputs : Setter([h EXCEPT !.minLength = n])

MaxLength ==
    /\ UNCHANGED raw
    /\ \E n \in MaxLengthInputs : Setter([h EXCEPT !.maxLength = n])

\* AllowedKeys on a string of S; raw remembers the string
AllowedKeysOf(S) ==
    \E s \in S :
        /\ raw' = s
        /\ Setter([h EXCEPT !.allowedKeys = strToDistinctByteSlice(s)])

AllowedKeys == AllowedKeysOf(KeyInputs)

\* GetAllowedKeys: string(h.allowedKeys), the same bytes
GetAllowedKeys(hh) == hh.allowedKeys

(***************************************************************************)
(* FindSequential, statement by statement.                                 *)
(***************************************************************************)
\* (mutation of FindSequentialCall: the go statement comes before verify())
FindSequentialCallGoFirst ==
    /\ pc = "idle"
    /\ op' = "FindSequential"
    /\ ret' = <<>>
    /\ err' = verify(h)
    /\ pc' = IF verify(h) # Nil THEN "idle" ELSE "make"
    /\ reporters' = Append(reporters, [pc |-> "sleep", t |-> 0])
    /\ UNCHANGED <<h, loc, raw, tested, digests, samples>>

\* the call: verify() and, on an error, the return of ("", err)
FindSequentialCall ==
    /\ pc = "idle"
    /\ op' = "FindSequential"
    /\ ret' = <<>>
    /\ err' = verify(h)
    /\ pc' = IF verify(h) # Nil THEN "idle" ELSE "make"
    /\ UNCHANGED <<h, loc, reporters, raw, tested, digests, samples>>

\* (mutation of SeqMake: the buffer is sized by maxLength)
SeqMakeMaxLength ==
    /\ pc = "make"
    /\ op = "FindSequential"
    /\ IF h.maxLength < 0
       THEN /\ pc' = "panic"
            /\ UNCHANGED <<h, loc>>
       ELSE /\ h' = [h EXCEPT !.buffer = makeBytes(h.maxLength)]
            /\ loc' = [loc EXCEPT !.x = 0,
                                  !.firstAllowedKey = h.allowedKeys[1],
                                  !.lastAllowedKey = h.allowedKeys[Len(h.allowedKeys)]]
            /\ pc' = "init"
    /\ UNCHANGED <<op, ret, err, reporters, raw, tested, digests, samples>>

\* h.buffer = make([]byte, h.minLength), which panics on a negative length,
\* then firstAllowedKey and lastAllowedKey
SeqMake ==
    /\ pc = "make"
    /\ op = "FindSequential"
    /\ IF h.minLength < 0
       THEN /\ pc' = "panic"
            /\ UNCHANGED <<h, loc>>
       ELSE /\ h' = [h EXCEPT !.buffer = makeBytes(h.minLength)]
            /\ loc' = [loc EXCEPT !.x = 0,
                                  !.firstAllowedKey = h.allowedKeys[1],
                                  !.lastAllowedKey = h.allowedKeys[Len(h.allowedKeys)]]
            /\ pc' = "init"
    /\ UNCHANGED <<op, ret, err, reporters, raw, tested, digests, samples>>

\* one iteration of "create initial mutation"
SeqInit ==
    /\ pc = "init"
    /\ op = "FindSequential"
    /\ loc.x < h.minLength
    /\ h' = [h EXCEPT !.buffer[loc.x + 1] = seqInitialKey(h, loc)]
    /\ loc' = [loc EXCEPT !.x = loc.x + 1]
    /\ UNCHANGED <<pc, op, ret, err, reporters, raw, tested, digests, samples>>

\* h.buffer = append(h.buffer, h.suffix...)
SeqAppend ==
    /\ pc = "init"
    /\ op = "FindSequential"
    /\ loc.x >= h.minLength
    /\ h' = [h EXCEPT !.buffer = h.buffer \o h.suffix]
    /\ pc' = "go"
    /\ UNCHANGED <<op, loc, ret, err, reporters, raw, tested, digests, samples>>

\* go h.statusReport()
StartReporter ==
    /\ pc = "go"
    /\ reporters' = Append(reporters, [pc |-> "sleep", t |-> 0])
    /\ pc' = "test"
    /\ UNCHANGED <<h, op, loc, ret, err, raw, tested, digests, samples>>

\* if h.equals() { return string(h.buffer), nil }, else the roller starts at
\* the rightmost position of the prefix
SeqTest ==
    /\ pc = "test"
    /\ op = "FindSequential"
    /\ tested' = Append(tested, h.buffer)
    /\ digests' = digests + 1
    /\ IF equals(h)
       THEN /\ ret' = h.buffer
            /\ err' = Nil
            /\ pc' = "returned"
            /\ UNCHANGED loc
       ELSE /\ Len(tested) + 1 < SeqTests
            /\ loc' = [loc EXCEPT !.roller = h.minLength - 1]
            /\ pc' = IF h.minLength - 1 >= 0 THEN "roll" ELSE "inc"
            /\ UNCHANGED <<ret, err>>
    /\ UNCHANGED <<h, op, reporters, raw, samples>>

\* one iteration of "update mutation": on continue the roller moves left and
\* the loop ends when it passes position 0, on break the loop ends
SeqRoll ==
    /\ pc = "roll"
    /\ op = "FindSequential"
    /\ LET r == seqRoll(h, loc)
       IN  /\ h' = [h EXCEPT !.buffer[loc.roller + 1] = r.byte]
           /\ IF r.continue
              THEN /\ loc' = [loc EXCEPT !.roller = loc.roller - 1]
                   /\ pc' = IF loc.roller - 1 >= 0 THEN "roll" ELSE "inc"
              ELSE /\ pc' = "inc"
                   /\ UNCHANGED loc
    /\ UNCHANGED <<op, ret, err, reporters, raw, tested, digests, samples>>

\* h.try++ (of either search loop)
IncTry ==
    /\ pc = "inc"
    /\ h' = [h EXCEPT !.try = h.try + 1]
    /\ pc' = "test"
    /\ UNCHANGED <<op, loc, ret, err, reporters, raw, tested, digests, samples>>

(***************************************************************************)
(* FindRandom, statement by statement.                                     *)
(***************************************************************************)
\* (mutation of FindRandomCall: verify() comes before the reverse check)
FindRandomCallVerifyFirst ==
    /\ pc = "idle"
    /\ op' = "FindRandom"
    /\ ret' = <<>>
    /\ err' = IF verify(h) # Nil THEN verify(h)
              ELSE IF h.reverse THEN ErrReverseRandom ELSE Nil
    /\ pc' = IF h.reverse \/ verify(h) # Nil THEN "idle" ELSE "make"
    /\ UNCHANGED <<h, loc, reporters, raw, tested, digests, samples>>

\* the call: the reverse check, verify() and, on an error, the return
FindRandomCall ==
    /\ pc = "idle"
    /\ op' = "FindRandom"
    /\ ret' = <<>>
    /\ err' = IF h.reverse THEN ErrReverseRandom ELSE verify(h)
    /\ pc' = IF h.reverse \/ verify(h) # Nil THEN "idle" ELSE "make"
    /\ UNCHANGED <<h, loc, reporters, raw, tested, digests, samples>>

RndMake ==
    /\ pc = "make"
    /\ op = "FindRandom"
    /\ IF h.minLength < 0
       THEN /\ pc' = "panic"
            /\ UNCHANGED <<h, loc>>
       ELSE /\ h' = [h EXCEPT !.buffer = makeBytes(h.minLength)]
            /\ loc' = [loc EXCEPT !.x = 0,
                                  !.firstAllowedKey = h.allowedKeys[1],
                                  !.allowedKeysLen = Len(h.allowedKeys)]
            /\ pc' = "init"
    /\ UNCHANGED <<op, ret, err, reporters, raw, tested, digests, samples>>

RndInit ==
    /\ pc = "init"
    /\ op = "FindRandom"
    /\ loc.x < h.minLength
    /\ h' = [h EXCEPT !.buffer[loc.x + 1] = loc.firstAllowedKey]
    /\ loc' = [loc EXCEPT !.x = loc.x + 1]
    /\ UNCHANGED <<pc, op, ret, err, reporters, raw, tested, digests, samples>>

RndAppend ==
    /\ pc = "init"
    /\ op = "FindRandom"
    /\ loc.x >= h.minLength
    /\ h' = [h EXCEPT !.buffer = h.buffer \o h.suffix]
    /\ pc' = "go"
    /\ UNCHANGED <<op, loc, ret, err, reporters, raw, tested, digests, samples>>

RndTest ==
    /\ pc = "test"
    /\ op = "FindRandom"
    /\ digests' = digests + 1
    /\ IF equals(h)
       THEN /\ ret' = h.buffer
            /\ err' = Nil
            /\ pc' = "returned"
            /\ UNCHANGED loc
       ELSE /\ h.try < MaxRndTry
            /\ loc' = [loc EXCEPT !.roller = 0]
            /\ pc' = IF 0 < h.minLength THEN "roll" ELSE "inc"
            /\ UNCHANGED <<ret, err>>
    /\ UNCHANGED <<h, op, reporters, raw, tested, samples>>

\* one iteration of "update mutation of first letters": rand.Intn draws an
\* index of allowedKeys
RndRoll ==
    /\ pc = "roll"
    /\ op = "FindRandom"
    /\ \E n \in 0 .. (loc.allowedKeysLen - 1) :
          h' = [h EXCEPT !.buffer[loc.roller + 1] = h.allowedKeys[n + 1]]
    /\ samples' = samples + 1
    /\ loc' = [loc EXCEPT !.roller = loc.roller + 1]
    /\ pc' = IF loc.roller + 1 < h.minLength THEN "roll" ELSE "inc"
    /\ UNCHANGED <<op, ret, err, reporters, raw, tested, digests>>

(***************************************************************************)
(* statusReport: one goroutine per entry of reporters.  h.tick++ is a read *)
(* and a write of h.tick with nothing that orders them against the other   *)
(* goroutines; the line printed goes to standard output and is no state of *)
(* the Hasher.                                                             *)
(***************************************************************************)
\* time.Sleep returns and h.tick is read
ReportWake(r) ==
    /\ pc # "panic"
    /\ reporters[r].pc = "sleep"
    /\ h.tick < MaxTick
    /\ reporters' = [reporters EXCEPT ![r] = [pc |-> "write", t |-> h.tick]]
    /\ UNCHANGED <<h, pc, op, loc, ret, err, raw, tested, digests, samples>>

\* (mutation of ReportTick: the reporter clears h.try as well)
ReportTickClearsTry(r) ==
    /\ pc # "panic"
    /\ reporters[r].pc = "write"
    /\ h' = [h EXCEPT !.tick = reporters[r].t + 1, !.try = 0]
    /\ reporters' = [reporters EXCEPT ![r] = [pc |-> "sleep", t |-> 0]]
    /\ pc' = IF reporters[r].t + 1 = 0 THEN "panic" ELSE pc
    /\ UNCHANGED <<op, loc, ret, err, raw, tested, digests, samples>>

\* h.tick is written, then avg := h.try / h.tick (a zero h.tick would end
\* the process) and fmt.Printf
ReportTick(r) ==
    /\ pc # "panic"
    /\ reporters[r].pc = "write"
    /\ h' = [h EXCEPT !.tick = reporters[r].t + 1]
    /\ reporters' = [reporters EXCEPT ![r] = [pc |-> "sleep", t |-> 0]]
    /\ pc' = IF reporters[r].t + 1 = 0 THEN "panic" ELSE pc
    /\ UNCHANGED <<op, loc, ret, err, raw, tested, digests, samples>>

Report ==
    \E r \in DOMAIN reporters : ReportWake(r) \/ ReportTick(r)

Next ==
    \/ Algo
    \/ ExpectedHash
    \/ Length
    \/ Reverse
    \/ Suffix
    \/ MinLength
    \/ MaxLength
    \/ AllowedKeys
    \/ FindSequentialCall
    \/ SeqMake
    \/ SeqInit
    \/ SeqAppend
    \/ StartReporter
    \/ SeqTest
    \/ SeqRoll
    \/ IncTry
    \/ FindRandomCall
    \/ RndMake
    \/ RndInit
    \/ RndAppend
    \/ RndTest
    \/ RndRoll

\* the caller's goroutine alone: the configuration calls and one search, from
\* a new Hasher
Spec == Init /\ [][Next]_vars

(***************************************************************************)
(* The search together with its reporter goroutine, every interleaving of  *)
(* the two, from a configured Hasher.                                      *)
(***************************************************************************)
\* the Hashers configured by Algo("md5"), ExpectedHash of the digest of "a0"
\* or of "zz", AllowedKeys("ba") or AllowedKeys("ba0"), MinLength, MaxLength,
\* Suffix and Reverse
InitReport ==
    /\ \E e \in {encodeHex(Sum(md5, <<97, 48>>)), encodeHex(Sum(md5, <<122, 122>>))},
          s \in {<<98, 97>>, <<98, 97, 48>>},
          n \in 1 .. MaxLen, m \in MaxLengthInputs, x \in SuffixInputs, b \in BOOLEAN :
          /\ raw = s
          /\ h = [NewHasher EXCEPT !.algo = replaceUnderscore(md5),
                                   !.expected = hexStringToBytes(e),
                                   !.allowedKeys = strToDistinctByteSlice(s),
                                   !.minLength = n,
                                   !.maxLength = m,
                                   !.suffix = x,
                                   !.reverse = b]
    /\ pc = "idle"
    /\ op = "none"
    /\ loc = NoLocals
    /\ ret = <<>>
    /\ err = Nil
    /\ reporters = <<>>
    /\ tested = <<>>
    /\ digests = 0
    /\ samples = 0

NextReport ==
    \/ FindSequentialCall
    \/ SeqMake
    \/ SeqInit
    \/ SeqAppend
    \/ StartReporter
    \/ SeqTest
    \/ SeqRoll
    \/ IncTry
    \/ FindRandomCall
    \/ RndMake
    \/ RndInit
    \/ RndAppend
    \/ RndTest
    \/ RndRoll
    \/ Report

SpecReport == InitReport /\ [][NextReport]_vars

(***************************************************************************)
(* One Hasher used for several searches, one after the other, with the     *)
(* statusReport goroutines of all of them: the caller takes the result of  *)
(* a search that returned and calls a search entry point again, without a  *)
(* configuration call in between.                                          *)
(***************************************************************************)
\* the Hashers configured by Algo("md5"), ExpectedHash of the digest of "b",
\* AllowedKeys("ba") or AllowedKeys("ba0"), MinLength(1) and Reverse
InitRerun ==
    /\ \E s \in {<<98, 97>>, <<98, 97, 48>>}, b \in BOOLEAN :
          /\ raw = s
          /\ h = [NewHasher EXCEPT !.algo = replaceUnderscore(md5),
                                   !.expected = hexStringToBytes(encodeHex(Sum(md5, <<98>>))),
                                   !.allowedKeys = strToDistinctByteSlice(s),
                                   !.minLength = 1,
                                   !.reverse = b]
    /\ pc = "idle"
    /\ op = "none"
    /\ loc = NoLocals
    /\ ret = <<>>
    /\ err = Nil
    /\ reporters = <<>>
    /\ tested = <<>>
    /\ digests = 0
    /\ samples = 0

\* return string(h.buffer), nil reaches the caller: the call and its locals
\* are over (tested starts again with the next call), the Hasher and the
\* goroutines the call started stay
Return ==
    /\ pc = "returned"
    /\ Len(reporters) < MaxRuns
    /\ pc' = "idle"
    /\ op' = "none"
    /\ loc' = NoLocals
    /\ tested' = <<>>
    /\ UNCHANGED <<h, ret, err, reporters, raw, digests, samples>>

NextRerun ==
    \/ FindSequentialCall
    \/ SeqMake
    \/ SeqInit
    \/ SeqAppend
    \/ StartReporter
    \/ SeqTest
    \/ SeqRoll
    \/ IncTry
    \/ FindRandomCall
    \/ RndMake
    \/ RndInit
    \/ RndAppend
    \/ RndTest
    \/ RndRoll
    \/ Report
    \/ Return

SpecRerun == InitRerun /\ [][NextRerun]_vars

\* the steps of the r-th statusReport goroutine
ReportOf(r) == r \in DOMAIN reporters /\ (ReportWake(r) \/ ReportTick(r))

\* the scheduler runs a goroutine that can run, and time.Sleep returns: every
\* statusReport goroutine that can take a step takes one
SpecRerunFair == SpecRerun /\ \A r \in 1 .. MaxRuns : WF_vars(ReportOf(r))

(***************************************************************************)
(* Alphabet normalization alone: AllowedKeys on every string up to         *)
(* MaxStrLen, and on what GetAllowedKeys returns.                          *)
(***************************************************************************)
AllowedKeysAny == AllowedKeysOf(NormInputs)

\* AllowedKeys(GetAllowedKeys())
Renormalize == AllowedKeysOf({GetAllowedKeys(h)})

NextNorm ==
    \/ AllowedKeysAny
    \/ Renormalize

SpecNorm == Init /\ [][NextNorm]_vars

(***************************************************************************)
(* Vocabulary of the properties.                                           *)
(***************************************************************************)
\* the prefix under enumeration of a candidate buffer
Prefix(buf) == SubSeq(buf, 1, h.minLength)

\* the position of a byte in the sorted alphabet
KeyIndex(b) == CHOOSE i \in DOMAIN h.allowedKeys : h.allowedKeys[i] = b

\* a comes before b in the lexicographic order of the alphabet's order
LexLess(a, b) ==
    \E p \in DOMAIN a :
        /\ KeyIndex(a[p]) < KeyIndex(b[p])
        /\ \A q \in 1 .. (p - 1) : a[q] = b[q]

\* the number of candidates of the key space: k^n
KeySpaceSize == Pow(Len(h.allowedKeys), h.minLength)

\* a sequential search passed validation and has tested a candidate
SeqRunning == op = "FindSequential" /\ tested # <<>>

(***************************************************************************)
(* C1: the prefixes FindSequential tests, from its first digest test on,   *)
(* are the lexicographic enumeration of alphabet^n: the first is           *)
(* alphabet[0]^n (alphabet[last]^n with reverse), within one pass each     *)
(* prefix is strictly greater (with reverse: smaller) than the one before, *)
(* every prefix is over the alphabet, and two tests have the same prefix   *)
(* exactly when a multiple of k^n tests lies between them, so each of the  *)
(* k^n prefixes is tested once before any is tested a second time.         *)
(***************************************************************************)
C1_Enumeration ==
    SeqRunning =>
        LET n == h.minLength
            k == Len(h.allowedKeys)
            P(i) == Prefix(tested[i])
        IN  /\ n >= 1
            /\ P(1) = [j \in 1 .. n |->
                         IF h.reverse THEN h.allowedKeys[k] ELSE h.allowedKeys[1]]
            /\ \A i \in DOMAIN tested :
                  /\ Len(P(i)) = n
                  /\ \A j \in 1 .. n : isByteInSlice(P(i)[j], h.allowedKeys)
            /\ \A i \in 1 .. (Len(tested) - 1) :
                  i % KeySpaceSize # 0 =>
                      IF h.reverse THEN LexLess(P(i + 1), P(i))
                      ELSE LexLess(P(i), P(i + 1))
            /\ \A i, j \in DOMAIN tested :
                  i < j => (P(i) = P(j) <=> (j - i) % KeySpaceSize = 0)

\* a descending search over three symbols and two positions has gone once
\* round the key space and tests its first prefix a second time
C1_Witness ==
    /\ SeqRunning
    /\ h.reverse
    /\ Len(h.allowedKeys) = 3
    /\ h.minLength = 2
    /\ Len(tested) = KeySpaceSize + 1

\* the digest of a candidate is the target digest
Matches(buf) == Sum(h.algo, buf) = h.expected

\* the prefixes of the key space: alphabet^n
KeySpace == [1 .. h.minLength -> Range(h.allowedKeys)]

\* the candidates of the key space that match
Matching == {c \in KeySpace : Matches(c \o h.suffix)}

(***************************************************************************)
(* C2: when some candidate of the key space matches, FindSequential makes  *)
(* at most k^n digest tests, the k^n-th, if made, returns, and until it    *)
(* returns the loop has a next step to take; no candidate                  *)
(* tested before the last one matches; what it returns is, with a nil      *)
(* error, the candidate tested last, prefix followed by suffix, whose      *)
(* digest is the target, and no matching candidate comes before it in the  *)
(* enumeration order.                                                      *)
(***************************************************************************)
C2_FirstMatch ==
    SeqRunning =>
        /\ \A i \in 1 .. (Len(tested) - 1) : ~Matches(tested[i])
        /\ Matching # {} =>
              /\ Len(tested) <= KeySpaceSize
              /\ Len(tested) = KeySpaceSize => pc = "returned"
              /\ pc # "returned" => ENABLED (SeqTest \/ SeqRoll \/ IncTry)
        /\ pc = "returned" =>
              /\ err = Nil
              /\ ret = tested[Len(tested)]
              /\ ret = Prefix(ret) \o h.suffix
              /\ Matches(ret)
              /\ Prefix(ret) \in Matching
              /\ \A c \in Matching :
                    c # Prefix(ret) =>
                        IF h.reverse THEN LexLess(c, Prefix(ret))
                        ELSE LexLess(Prefix(ret), c)

\* a search returned after more than one test, from a key space in which a
\* second candidate has the same digest
C2_Witness ==
    /\ SeqRunning
    /\ pc = "returned"
    /\ Len(tested) > 1
    /\ Cardinality(Matching) > 1
    /\ h.suffix # <<>>

\* a search entry point was called and returned an error
Rejected == op # "none" /\ pc = "idle"

\* a search entry point was called and passed its checks
Validated == op # "none" /\ pc # "idle"

\* the registry's bit width of the configured algorithm, 0 for a name the
\* registry does not hold
RequiredBits == IF h.algo \in DOMAIN algos THEN algos[h.algo] ELSE 0

(***************************************************************************)
(* C3: with minLength <= 0 (and the checks that come before the length     *)
(* check passing: a non-empty alphabet, and no reverse for FindRandom) a   *)
(* search call fails with "minLength unset" and never reaches the buffer   *)
(* allocation.  The code compares minLength with 0 only, so a negative     *)
(* minLength passes the check.                                             *)
(***************************************************************************)
C3_LengthUnsetRejected ==
    (/\ op # "none"
     /\ h.minLength <= 0
     /\ Len(h.allowedKeys) > 0
     /\ ~(op = "FindRandom" /\ h.reverse))
        => Rejected /\ err = ErrMinLengthUnset

C5_ReverseRandom ==
    [][(pc = "idle" /\ h.reverse /\ op' = "FindRandom") =>
          /\ pc' = "idle"
          /\ err' = ErrReverseRandom
          /\ ret' = <<>>
          /\ UNCHANGED <<h, loc, reporters, tested, digests, samples>>]_vars

\* FindRandom refused a reversed configuration that verify() accepts
C5_Witness ==
    /\ Rejected
    /\ op = "FindRandom"
    /\ h.reverse
    /\ verify(h) = Nil
    /\ err = ErrReverseRandom

(***************************************************************************)
(* C6: after AllowedKeys(raw), GetAllowedKeys is the strictly ascending    *)
(* sequence of the distinct bytes of raw: no duplicates, exactly the bytes *)
(* of raw, the same result for every other string with the same bytes      *)
(* (every permutation of raw, every string that repeats bytes of raw), and *)
(* normalizing the result again returns it unchanged.                      *)
(***************************************************************************)
C6_Normalization ==
    LET keys == GetAllowedKeys(h)
    IN  /\ \A i \in 1 .. (Len(keys) - 1) : keys[i] < keys[i + 1]
        /\ Range(keys) = Range(raw)
        /\ Len(keys) = Cardinality(Range(raw))
        /\ \A s \in NormInputs :
              Range(s) = Range(raw) => strToDistinctByteSlice(s) = keys
        /\ strToDistinctByteSlice(keys) = keys

\* an unsorted string with a repeated byte was normalized to three symbols
C6_Witness ==
    /\ raw = <<98, 48, 98, 97>>
    /\ GetAllowedKeys(h) = <<48, 97, 98>>

(***************************************************************************)
(* C7: once a search call has passed validation nothing fails: no runtime  *)
(* fault and no error; the call returns a matching candidate with a nil    *)
(* error or does not return.  In the code a negative minLength passes      *)
(* verify() (see C3) and make([]byte, h.minLength) panics.                 *)
(***************************************************************************)
C7_NoFailureAfterValidation ==
    Validated =>
        /\ pc # "panic"
        /\ err = Nil
        /\ pc = "returned" => Matches(ret)

\* the i-th candidate (from 1) of the enumeration, computed from the
\* alphabet, minLength, reverse and the suffix by mixed-radix arithmetic
NthCandidate(i) ==
    LET n == h.minLength
        k == Len(h.allowedKeys)
        idx == (i - 1) % KeySpaceSize
        digit(j) == (idx \div Pow(k, n - j)) % k
    IN  [j \in 1 .. n |->
            IF h.reverse THEN h.allowedKeys[k - digit(j)]
            ELSE h.allowedKeys[digit(j) + 1]] \o h.suffix

\* the search loop of either entry point holds an initialized buffer
BufferReady == Validated /\ pc \in {"go", "test", "roll", "inc", "returned"}

C9_BufferShape ==
    BufferReady =>
        /\ Len(h.buffer) = h.minLength + Len(h.suffix)
        /\ \A j \in 1 .. h.minLength : isByteInSlice(h.buffer[j], h.allowedKeys)
        /\ SubSeq(h.buffer, h.minLength + 1, Len(h.buffer)) = h.suffix

\* a carry is under way (the roller has moved left of the last position),
\* the alphabet lacks '0', there is a suffix and the reporter is between its
\* read and its write of h.tick
C9_Witness ==
    /\ BufferReady
    /\ op = "FindSequential"
    /\ pc = "roll"
    /\ loc.roller < h.minLength - 1
    /\ ~isByteInSlice(48, h.allowedKeys)
    /\ h.suffix # <<>>
    /\ \E r \in DOMAIN reporters : reporters[r].pc = "write"

\* the step of FindSequential just run carried past the leftmost position
Wrapped == op = "FindSequential" /\ pc = "inc" /\ loc.roller < 0

\* every prefix position of the buffer holds the byte b
PrefixAll(b) == \A j \in 1 .. h.minLength : h.buffer[j] = b

\* a validated call has not returned, has reported no error and has not
\* faulted
NeverReturned == pc \notin {"idle", "returned", "panic"} /\ err = Nil /\ ret = <<>>

(***************************************************************************)
(* C10 as claimed: in ascending or descending mode, when the carry goes    *)
(* past the leftmost position every prefix position equals alphabet[0];    *)
(* and with no matching candidate FindSequential never returns and reports *)
(* no error.                                                               *)
(***************************************************************************)
C10_RestartAllFirst ==
    /\ Wrapped => PrefixAll(h.allowedKeys[1])
    /\ (SeqRunning /\ Matching = {}) => NeverReturned

(***************************************************************************)
(* C10 amended: when the carry goes past the leftmost position the counter *)
(* is back at its initial value, every prefix position equal to            *)
(* alphabet[0] in ascending mode and to alphabet[last] in descending mode, *)
(* and the loop goes on (the next test is of that candidate, which was the *)
(* first one tested); with no matching candidate FindSequential never      *)
(* returns and reports no error.                                           *)
(***************************************************************************)
C10_RestartInitial ==
    /\ Wrapped =>
          /\ PrefixAll(IF h.reverse THEN h.allowedKeys[Len(h.allowedKeys)]
                       ELSE h.allowedKeys[1])
          /\ h.buffer = tested[1]
          /\ Len(tested) % KeySpaceSize = 0
    /\ (SeqRunning /\ Len(tested) > KeySpaceSize) =>
          tested[KeySpaceSize + 1] = tested[1]
    /\ (SeqRunning /\ Matching = {}) => NeverReturned

\* a descending search without a match over more than one symbol has wrapped
\* and gone on to test again
C10_Witness ==
    /\ SeqRunning
    /\ h.reverse
    /\ Matching = {}
    /\ Len(h.allowedKeys) > 1
    /\ Len(tested) > KeySpaceSize
    /\ pc = "roll"

\* the step taken is a step of a statusReport goroutine
ReporterStep == Len(reporters') = Len(reporters) /\ reporters' # reporters

(***************************************************************************)
(* C11 as claimed: every search call that passes validation starts exactly *)
(* one statusReport goroutine, which then never stops: once the call is    *)
(* past its go statement, or over, the goroutine it started is there,      *)
(* asleep or between its read and its write of h.tick.  In the code a      *)
(* negative minLength passes verify() (see C3) and make([]byte,            *)
(* h.minLength) panics before the go statement, so that call starts none.  *)
(***************************************************************************)
C11_OneReporterPerCall ==
    (Validated /\ pc \notin {"make", "init", "go"}) =>
        /\ Len(reporters) = 1
        /\ \A r \in DOMAIN reporters : reporters[r].pc \in {"sleep", "write"}

(***************************************************************************)
(* C11 for positive lengths: a step adds a goroutine to reporters exactly  *)
(* when it is the go statement of a validated call, and then exactly one;  *)
(* no step removes or ends one; and, with the goroutines scheduled fairly, *)
(* h.tick is again and again brought to the value the model follows it to, *)
(* also after the search has returned and with the caller doing nothing    *)
(* more.                                                                   *)
(***************************************************************************)
C11_ReportersPersist ==
    /\ [][/\ Len(reporters') = Len(reporters) + (IF pc = "go" /\ pc' # pc THEN 1 ELSE 0)
          /\ SubSeq(reporters', 1, Len(reporters)) # reporters => ReporterStep
          /\ \A r \in DOMAIN reporters' : reporters'[r].pc \in {"sleep", "write"}]_vars
    /\ []<>(reporters = <<>> \/ h.tick = MaxTick)
    /\ [](Len(reporters) <= MaxRuns)

\* the second search on the Hasher has returned and both statusReport
\* goroutines are there, one of them between its read and its write
C11_Witness ==
    /\ pc = "returned"
    /\ Len(reporters) = MaxRuns
    /\ \E r \in DOMAIN reporters : reporters[r].pc = "write"

(***************************************************************************)
(* C12: a step of a statusReport goroutine changes h.tick at most: the     *)
(* buffer, h.try, the configuration fields and the caller's position,      *)
(* locals and results are as before; and in every interleaving of the      *)
(* goroutines with the loop of FindSequential, in the first search on a    *)
(* Hasher and in a later one, the i-th candidate tested is the i-th of the *)
(* enumeration the configuration determines, no candidate before the last  *)
(* one tested matches, and the value returned is the candidate tested      *)
(* last: the candidates and the result are functions of the configuration. *)
(***************************************************************************)
C12_ReporterNoFeedback ==
    /\ [][ReporterStep =>
            /\ h' = [h EXCEPT !.tick = h'.tick]
            /\ UNCHANGED <<pc, op, loc, ret, err, raw, tested, digests, samples>>]_vars
    /\ [](SeqRunning =>
            /\ \A i \in DOMAIN tested : tested[i] = NthCandidate(i)
            /\ \A i \in 1 .. (Len(tested) - 1) : ~Matches(NthCandidate(i))
            /\ pc = "returned" =>
                  /\ ret = NthCandidate(Len(tested))
                  /\ Matches(ret)
                  /\ err = Nil)

\* the second sequential search on the Hasher has returned after two tests,
\* with two statusReport goroutines running and h.tick written
C12_Witness ==
    /\ SeqRunning
    /\ pc = "returned"
    /\ Len(tested) = 2
    /\ Len(reporters) = 2
    /\ h.try > 1
    /\ h.tick > 0

(***************************************************************************)
(* C13 as claimed: a search call that has passed validation and set up its *)
(* buffer starts with h.try = 0 and h.tick = 0, and no statusReport        *)
(* goroutine of an earlier call is left to read or write them.  In the     *)
(* code only h.buffer is made anew: h.try and h.tick are fields of the     *)
(* Hasher that no call resets, and the goroutines of the earlier calls go  *)
(* on writing h.tick.                                                      *)
(***************************************************************************)
C13_FreshRun ==
    pc = "go" => (h.try = 0 /\ h.tick = 0 /\ reporters = <<>>)

(***************************************************************************)
(* C14 as claimed: no step lowers h.try or h.tick, and a step that changes *)
(* one of them adds one to it.  In the code h.tick++ of two statusReport   *)
(* goroutines is a data race: a goroutine that read h.tick before another  *)
(* one wrote it writes a lower value over a higher one.                    *)
(***************************************************************************)
C14_CountersMonotonic ==
    [][/\ h'.try \in {h.try, h.try + 1}
       /\ h'.tick \in {h.tick, h.tick + 1}]_vars

\* the step taken is a call of a search entry point
CallStep == pc = "idle" /\ op' # "none"

(***************************************************************************)
(* C15: a call of FindSequential or FindRandom returns an error exactly    *)
(* when it does not go on to the buffer allocation, and then it returns    *)
(* the empty string and leaves the Hasher (configuration, buffer, h.try,   *)
(* h.tick), the number of digests computed, the random samples drawn and   *)
(* the statusReport goroutines as they were; verify() changes nothing,     *)
(* whether it accepts or rejects: the call step leaves the Hasher as it    *)
(* was, a rejected call made again returns the same error, and a           *)
(* configuration that was accepted is still accepted by verify() in every  *)
(* later state of the search.                                              *)
(***************************************************************************)
C15_ErrorLeavesEngine ==
    /\ [][CallStep =>
            /\ h' = h
            /\ err' # Nil <=> pc' = "idle"
            /\ err' = Nil <=> pc' = "make"
            /\ err' # Nil =>
                  /\ ret' = <<>>
                  /\ UNCHANGED <<loc, reporters, raw, tested, digests, samples>>
            /\ (Rejected /\ op' = op) => err' = err]_vars
    /\ []((Validated /\ pc # "panic") => verify(h) = Nil)

\* FindSequential refused, for an algorithm the registry does not hold, a
\* Hasher whose alphabet and length are set; nothing was computed or started
C15_Witness ==
    /\ Rejected
    /\ op = "FindSequential"
    /\ err = ErrUnknownAlgo(h.algo)
    /\ Len(h.allowedKeys) > 0
    /\ h.minLength > 0
    /\ h.buffer = <<>>
    /\ digests = 0
    /\ reporters = <<>>

====
